---- MODULE Spec2Model ----
(***************************************************************************)
(* A model of lib/reset-event.js: one ResetEvent instance, the tokens it   *)
(* hands out, and the timers armed for them.  Every method call is one     *)
(* atomic step (JavaScript runs a handler to completion); a timer firing   *)
(* is a step of its own.                                                   *)
(***************************************************************************)
EXTENDS Integers, Sequences, FiniteSets, TLC

\* Bounds of the model.
MaxTokens == 3
MaxQueueSize == 2
MaxAutoReset == 2
MaxDepth == 2

(***************************************************************************)
(* JavaScript numbers, as far as the code uses them: finite integers,      *)
(* Infinity, NaN, and the value undefined (which arithmetic turns to NaN). *)
(***************************************************************************)
Num(n) == [kind |-> "number", v |-> n]
Infinity == [kind |-> "Infinity", v |-> 0]
NaN == [kind |-> "NaN", v |-> 0]
Undefined == [kind |-> "undefined", v |-> 0]

\* x-- / x - 1
Decrement(x) ==
    CASE x.kind = "number" -> Num(x.v - 1)
      [] x.kind = "Infinity" -> Infinity
      [] OTHER -> NaN

\* x++
Increment(x) ==
    CASE x.kind = "number" -> Num(x.v + 1)
      [] x.kind = "Infinity" -> Infinity
      [] OTHER -> NaN

\* a > b
GreaterThan(a, b) ==
    CASE a.kind = "number" /\ b.kind = "number" -> a.v > b.v
      [] a.kind = "Infinity" /\ b.kind = "number" -> TRUE
      [] OTHER -> FALSE

\* (typeof x !== 'number') || isNaN(x)
NotANumber(x) == x.kind \in {"NaN", "undefined"}

VARIABLES
    isSignaled,      \* this.isSignaled
    queue,           \* this.queue: token ids, front = oldest
    callbacksCount,  \* this.callbacksCount
    options,         \* this.options
    tokenId,         \* the module-level counter
    tokens,          \* token id -> [isCanceled, timeoutId]
    timers,          \* token id -> state of the timer armed for it
    invoked,         \* history: the token ids whose callbacks ran, in order
    evicted,         \* history: the tokens reduceQueue ever removed
    burst,           \* history: callbacks run since the last set() began
    lastCall,        \* history: the most recent call and its outcome
    stack            \* the calls that are inside executeCallback, innermost last

vars == <<isSignaled, queue, callbacksCount, options, tokenId, tokens, timers,
          invoked, evicted, burst, lastCall, stack>>

gate == <<isSignaled, queue, callbacksCount, options, tokenId, tokens, timers>>

\* The options a caller may pass; ResetEvent.defaultOptions is maxQueueSize
\* Infinity, overflowStrategy 'this', autoResetCount Infinity.
OverflowStrategies == {"this", "first", "last"}

MaxQueueSizes == {Num(n) : n \in 0..MaxQueueSize} \cup {Infinity, NaN}

AutoResetCounts == {Num(n) : n \in 0..MaxAutoReset} \cup {Infinity}

\* op: the method called; error: what it threw; ran: the callbacks it invoked;
\* reduced: the tokens its reduceQueue removed; skipped: the canceled tokens
\* its drain loop passed over.
Call(op, error, ran, reduced, skipped) ==
    [op |-> op, error |-> error, ran |-> ran, reduced |-> reduced, skipped |-> skipped]

\* new ResetEvent(isSignaled, options)
Init ==
    /\ isSignaled \in BOOLEAN
    /\ queue = <<>>
    /\ callbacksCount = Undefined
    /\ options \in [maxQueueSize : MaxQueueSizes,
                    overflowStrategy : OverflowStrategies,
                    autoResetCount : AutoResetCounts]
    /\ tokenId = 0
    /\ tokens = <<>>
    /\ timers = <<>>
    /\ invoked = <<>>
    /\ evicted = {}
    /\ burst = 0
    /\ lastCall = Call("construct", "none", <<>>, <<>>, <<>>)
    /\ stack = <<>>

\* createToken: ids are 0, 1, ...; the model keeps token i at index i + 1.
createToken(timeoutId) == [isCanceled |-> FALSE, timeoutId |-> timeoutId]

Token(id) == tokens[id + 1]

\* clearTimeout(token.timeoutId): an armed timer never fires afterwards.
clearTimeout(tm, id) ==
    IF tm[id + 1] = "armed" THEN [tm EXCEPT ![id + 1] = "cleared"] ELSE tm

\* if (token.timeoutId): a timer handle is truthy, null and undefined are not.
Truthy(timeoutId) == timeoutId = "handle"

(***************************************************************************)
(* reduceQueue(queue, options): the queue that is left and the tokens      *)
(* removed, as [queue, result].                                            *)
(***************************************************************************)
Front(q) == SubSeq(q, 1, Len(q) - 1)

Last(q) == q[Len(q)]

\* 'last': while (queue.length && queue.length > maxQueueSize - 1)
\*             result.unshift(queue.pop())
RECURSIVE PopWhileOver(_, _, _)
PopWhileOver(q, result, limit) ==
    IF Len(q) # 0 /\ GreaterThan(Num(Len(q)), limit)
    THEN PopWhileOver(Front(q), <<Last(q)>> \o result, limit)
    ELSE [queue |-> q, result |-> result]

\* 'first': while (queue.length && queue.length > maxQueueSize)
\*              result.push(queue.shift())
RECURSIVE ShiftWhileOver(_, _, _)
ShiftWhileOver(q, result, limit) ==
    IF Len(q) # 0 /\ GreaterThan(Num(Len(q)), limit)
    THEN ShiftWhileOver(Tail(q), Append(result, Head(q)), limit)
    ELSE [queue |-> q, result |-> result]

\* Mutant: 'last' pops the tokens without putting them in the result.
reduceLastUnreported(q, maxQueueSize) ==
    LET r == PopWhileOver(Front(q), <<>>, Decrement(maxQueueSize))
    IN  [queue |-> Append(r.queue, Last(q)), result |-> <<>>]

reduceLast(q, maxQueueSize) ==
    LET r == PopWhileOver(Front(q), <<>>, Decrement(maxQueueSize))
    IN  [queue |-> Append(r.queue, Last(q)), result |-> r.result]

\* Mutant: 'first' compares with maxQueueSize - 1, as 'last' does.
reduceFirstOffByOne(q, maxQueueSize) == ShiftWhileOver(q, <<>>, Decrement(maxQueueSize))

reduceFirst(q, maxQueueSize) == ShiftWhileOver(q, <<>>, maxQueueSize)

\* Mutant: 'this' shifts the oldest token instead of popping the newest.
reduceThisShifts(q) ==
    IF Len(q) # 0
    THEN [queue |-> Tail(q), result |-> <<Head(q)>>]
    ELSE [queue |-> q, result |-> <<>>]

reduceThis(q) ==
    IF Len(q) # 0
    THEN [queue |-> Front(q), result |-> <<Last(q)>>]
    ELSE [queue |-> q, result |-> <<>>]

reduceQueue(q, opts) ==
    IF NotANumber(opts.maxQueueSize)
    THEN [queue |-> q, result |-> <<>>]
    ELSE IF GreaterThan(Num(Len(q)), opts.maxQueueSize)
         THEN CASE opts.overflowStrategy = "last" -> reduceLast(q, opts.maxQueueSize)
                [] opts.overflowStrategy = "first" -> reduceFirst(q, opts.maxQueueSize)
                [] opts.overflowStrategy = "this" -> reduceThis(q)
                [] OTHER -> [queue |-> q, result |-> <<>>]
         ELSE [queue |-> q, result |-> <<>>]

(***************************************************************************)
(* set(): the drain loop.  s = [queue, callbacksCount, timers, ran,        *)
(* skipped, isSignaled]; the result is the state in which set() returns.   *)
(***************************************************************************)
\* if (queueToken.timeoutId && this.callbacksCount > 0) clearTimeout(...)
clearOnDequeue(tm, id, count) ==
    IF Truthy(Token(id).timeoutId) /\ GreaterThan(count, Num(0))
    THEN clearTimeout(tm, id)
    ELSE tm

\* Mutant: the budget counts as exhausted only once it is below zero.
budgetExhaustedLate(count) == GreaterThan(Num(0), count)

\* if (this.callbacksCount === 0) return;
budgetExhausted(count) == count = Num(0)

\* Mutant: a canceled token's unit of budget is not given back.
refundNothing(count) == count

\* if (queueToken.isCanceled) this.callbacksCount++
refund(count) == Increment(count)

\* Mutant: set() signals without running the queued callbacks.
drainNothing(s) == [s EXCEPT !.isSignaled = TRUE]

RECURSIVE drain(_)
drain(s) ==
    IF Len(s.queue) > 0
    THEN LET queueToken == Head(s.queue)
             count == Decrement(s.callbacksCount)
             tm == clearOnDequeue(s.timers, queueToken, count)
         IN  IF Token(queueToken).isCanceled
             THEN drain([s EXCEPT !.queue = Tail(s.queue),
                                  !.callbacksCount = refund(count),
                                  !.timers = tm,
                                  !.skipped = Append(s.skipped, queueToken)])
             ELSE LET t == [s EXCEPT !.queue = Tail(s.queue),
                                     !.callbacksCount = count,
                                     !.timers = tm,
                                     !.ran = Append(s.ran, queueToken)]
                  IN  IF budgetExhausted(count) THEN t ELSE drain(t)
    ELSE [s EXCEPT !.isSignaled = TRUE]

\* Mutant: set() keeps the budget left from before.
initialBudgetStale(opts) == callbacksCount

\* this.callbacksCount = this.options.autoResetCount
initialBudget(opts) == opts.autoResetCount

\* Mutant: set() without the check of the state.
SetUnchecked ==
    LET s == drain([queue |-> queue,
                    callbacksCount |-> initialBudget(options),
                    timers |-> timers,
                    ran |-> <<>>,
                    skipped |-> <<>>,
                    isSignaled |-> isSignaled])
    IN  /\ queue' = s.queue
        /\ callbacksCount' = s.callbacksCount
        /\ timers' = s.timers
        /\ isSignaled' = s.isSignaled
        /\ invoked' = invoked \o s.ran
        /\ burst' = Len(s.ran)
        /\ lastCall' = Call("set", "none", s.ran, <<>>, s.skipped)
        /\ UNCHANGED <<options, tokenId, tokens, evicted>>

\* set()
Set ==
    IF isSignaled = TRUE
    THEN /\ lastCall' = Call("set", "InvalidState", <<>>, <<>>, <<>>)
         /\ UNCHANGED <<gate, invoked, evicted, burst>>
    ELSE LET s == drain([queue |-> queue,
                         callbacksCount |-> initialBudget(options),
                         timers |-> timers,
                         ran |-> <<>>,
                         skipped |-> <<>>,
                         isSignaled |-> isSignaled])
         IN  /\ queue' = s.queue
             /\ callbacksCount' = s.callbacksCount
             /\ timers' = s.timers
             /\ isSignaled' = s.isSignaled
             /\ invoked' = invoked \o s.ran
             /\ burst' = Len(s.ran)
             /\ lastCall' = Call("set", "none", s.ran, <<>>, s.skipped)
             /\ UNCHANGED <<options, tokenId, tokens, evicted>>

\* Mutant: reset() without the check of the state.
ResetUnchecked ==
    /\ isSignaled' = FALSE
    /\ lastCall' = Call("reset", "none", <<>>, <<>>, <<>>)
    /\ UNCHANGED <<queue, callbacksCount, options, tokenId, tokens, timers,
                   invoked, evicted, burst>>

\* Mutant: reset() also puts the budget back to autoResetCount.
ResetRearmsBudget ==
    IF isSignaled = FALSE
    THEN /\ lastCall' = Call("reset", "InvalidState", <<>>, <<>>, <<>>)
         /\ UNCHANGED <<gate, invoked, evicted, burst>>
    ELSE /\ isSignaled' = FALSE
         /\ callbacksCount' = options.autoResetCount
         /\ lastCall' = Call("reset", "none", <<>>, <<>>, <<>>)
         /\ UNCHANGED <<queue, options, tokenId, tokens, timers,
                        invoked, evicted, burst>>

\* reset()
Reset ==
    IF isSignaled = FALSE
    THEN /\ lastCall' = Call("reset", "InvalidState", <<>>, <<>>, <<>>)
         /\ UNCHANGED <<gate, invoked, evicted, burst>>
    ELSE /\ isSignaled' = FALSE
         /\ lastCall' = Call("reset", "none", <<>>, <<>>, <<>>)
         /\ UNCHANGED <<queue, callbacksCount, options, tokenId, tokens, timers,
                        invoked, evicted, burst>>

\* The setTimeout callback of wait(): token.isCanceled = true; timeoutId = null.
TimerFires(id) ==
    /\ id \in 0..(tokenId - 1)
    /\ timers[id + 1] = "armed"
    /\ timers' = [timers EXCEPT ![id + 1] = "fired"]
    /\ tokens' = [tokens EXCEPT ![id + 1] = [isCanceled |-> TRUE, timeoutId |-> "null"]]
    /\ lastCall' = Call("timeout", "none", <<>>, <<>>, <<>>)
    /\ UNCHANGED <<isSignaled, queue, callbacksCount, options, tokenId,
                   invoked, evicted, burst>>

\* The set of elements of a sequence.
Range(q) == {q[i] : i \in 1..Len(q)}

\* wait(): for each reduced token, isCanceled = true and its timer cleared.
cancelReduced(tk, reduced) ==
    [i \in 1..Len(tk) |->
        IF (i - 1) \in Range(reduced) THEN [tk[i] EXCEPT !.isCanceled = TRUE] ELSE tk[i]]

\* Mutant: the timers of the reduced tokens are left armed.
clearReducedNothing(tk, tm, reduced) == tm

\* wait(): if (reducedTokens[i].timeoutId) clearTimeout(reducedTokens[i].timeoutId)
clearReduced(tk, tm, reduced) ==
    [i \in 1..Len(tm) |->
        IF (i - 1) \in Range(reduced) /\ Truthy(tk[i].timeoutId) /\ tm[i] = "armed"
        THEN "cleared"
        ELSE tm[i]]

\* Mutant: wait() puts its token at the front of the queue (unshift for push).
passOrEnqueueAtFront(id) ==
    IF isSignaled
    THEN LET count == Decrement(callbacksCount)
         IN  [isSignaled |-> IF budgetExhausted(count) THEN FALSE ELSE isSignaled,
              callbacksCount |-> count,
              queue |-> queue,
              ran |-> <<id>>]
    ELSE [isSignaled |-> isSignaled,
          callbacksCount |-> callbacksCount,
          queue |-> <<id>> \o queue,
          ran |-> <<>>]

\* Mutant: wait() pushes its token also when it has run the callback at once.
passAndEnqueue(id) ==
    IF isSignaled
    THEN LET count == Decrement(callbacksCount)
         IN  [isSignaled |-> IF budgetExhausted(count) THEN FALSE ELSE isSignaled,
              callbacksCount |-> count,
              queue |-> Append(queue, id),
              ran |-> <<id>>]
    ELSE [isSignaled |-> isSignaled,
          callbacksCount |-> callbacksCount,
          queue |-> Append(queue, id),
          ran |-> <<>>]

\* wait(): the branch on this.isSignaled, as [isSignaled, callbacksCount, queue, ran].
passOrEnqueue(id) ==
    IF isSignaled
    THEN LET count == Decrement(callbacksCount)
         IN  [isSignaled |-> IF budgetExhausted(count) THEN FALSE ELSE isSignaled,
              callbacksCount |-> count,
              queue |-> queue,
              ran |-> <<id>>]
    ELSE [isSignaled |-> isSignaled,
          callbacksCount |-> callbacksCount,
          queue |-> Append(queue, id),
          ran |-> <<>>]

\* wait(callback, timeout)
Wait(isFunction, timeout) ==
    IF ~isFunction
    THEN /\ lastCall' = Call("wait", "InvalidArgument", <<>>, <<>>, <<>>)
         /\ UNCHANGED <<gate, invoked, evicted, burst>>
    ELSE /\ tokenId < MaxTokens
         /\ LET id == tokenId
                token == createToken(IF timeout # 0 THEN "handle" ELSE "undefined")
                tk == Append(tokens, token)
                tm == Append(timers, IF timeout # 0 THEN "armed" ELSE "none")
                p == passOrEnqueue(id)
                r == reduceQueue(p.queue, options)
            IN  /\ tokenId' = tokenId + 1
                /\ isSignaled' = p.isSignaled
                /\ callbacksCount' = p.callbacksCount
                /\ queue' = r.queue
                /\ tokens' = cancelReduced(tk, r.result)
                /\ timers' = clearReduced(tk, tm, r.result)
                /\ invoked' = invoked \o p.ran
                /\ evicted' = evicted \cup Range(r.result)
                /\ burst' = burst + Len(p.ran)
                /\ lastCall' = Call("wait", "none", p.ran, r.result, <<>>)
                /\ UNCHANGED options

Timeouts == {0, 50}

\* The calls made between callbacks: each runs to its end in one step (the
\* callbacks it runs do not call the event), so no call is left in progress.
Next ==
    \/ Set /\ UNCHANGED stack
    \/ Reset /\ UNCHANGED stack
    \/ (\E isFunction \in BOOLEAN, timeout \in Timeouts : Wait(isFunction, timeout))
            /\ UNCHANGED stack
    \/ (\E id \in 0..(MaxTokens - 1) : TimerFires(id)) /\ UNCHANGED stack

Spec == Init /\ [][Next]_vars

TypeOK ==
    /\ isSignaled \in BOOLEAN
    /\ tokenId \in 0..MaxTokens
    /\ Len(tokens) = tokenId
    /\ Len(timers) = tokenId
    /\ Range(queue) \subseteq 0..(tokenId - 1)

(***************************************************************************)
(* Vocabulary of the properties.                                           *)
(***************************************************************************)
\* The step is a wait() that returned a token.
WaitReturns == lastCall'.op = "wait" /\ lastCall'.error = "none" /\ tokenId' = tokenId + 1

\* The step is a call of reset() / of set(), throwing or not.
ResetCalled == lastCall'.op = "reset"

SetCalled == lastCall'.op = "set"

\* The step is a set() that does not throw.
SetReturns == SetCalled /\ lastCall'.error = "none"

IsLive(id) == ~Token(id).isCanceled

\* The non-canceled tokens of a queue, in queue order.
Live(q) == SelectSeq(q, IsLive)

Take(q, n) == SubSeq(q, 1, n)

Drop(q, n) == SubSeq(q, n + 1, Len(q))

Min(a, b) == IF a <= b THEN a ELSE b

Finite(x) == x.kind = "number"

K == options.autoResetCount

\* C1: after a wait() returns, the queue holds at most maxQueueSize tokens,
\* whatever the overflow strategy.
C1_QueueWithinMaxAfterWait ==
    (lastCall.op = "wait" /\ lastCall.error = "none" /\ Finite(options.maxQueueSize))
        => Len(queue) <= options.maxQueueSize.v

\* What a set() over n non-canceled queued tokens with autoResetCount k <= n does:
\* it runs the k oldest callbacks, oldest first, stays non-signaled and keeps
\* the other n - k tokens queued in order.
ReleasesExactlyK ==
    /\ lastCall'.ran = Take(queue, K.v)
    /\ ~isSignaled'
    /\ queue' = Drop(queue, K.v)

\* C2 as stated: for every autoResetCount K <= N, set() on N queued
\* non-canceled tokens runs exactly the K oldest callbacks and stays closed.
C2_ReleaseInvokesExactlyK ==
    [][(SetReturns /\ Live(queue) = queue /\ Finite(K) /\ K.v <= Len(queue))
        => ReleasesExactlyK]_vars

\* C2 amended: the same for every autoResetCount K with 1 <= K <= N.
C2_ReleaseInvokesExactlyK_Positive ==
    [][(SetReturns /\ Live(queue) = queue /\ Finite(K) /\ 1 <= K.v /\ K.v <= Len(queue))
        => ReleasesExactlyK]_vars

\* A set() with autoResetCount 1 ran one callback and left a token queued,
\* no token being canceled.
C2_Witness ==
    /\ lastCall.op = "set" /\ lastCall.error = "none"
    /\ K = Num(1)
    /\ Len(lastCall.ran) = 1
    /\ Len(queue) >= 1
    /\ ~isSignaled
    /\ \A i \in 1..Len(tokens) : ~tokens[i].isCanceled

\* C3 as stated: set() with autoResetCount unbounded or >= the queue length
\* empties the queue and leaves the event signaled.
C3_ReleaseDrainsAndOpens ==
    [][(SetReturns /\ (K = Infinity \/ (Finite(K) /\ K.v >= Len(queue))))
        => (queue' = <<>> /\ isSignaled')]_vars

\* C3 amended: such a set() empties the queue, and leaves the event signaled
\* unless autoResetCount >= 1 equals the number of non-canceled queued tokens;
\* then the last callback exhausts the budget and the event stays non-signaled.
C3_ReleaseDrainsAndOpensUnlessExhausted ==
    [][(SetReturns /\ (K = Infinity \/ (Finite(K) /\ K.v >= Len(queue))))
        => /\ queue' = <<>>
           /\ isSignaled' <=> ~(Finite(K) /\ K.v >= 1 /\ K.v = Len(Live(queue)))]_vars

\* A set() with autoResetCount 2 ran the only queued callback and signaled.
C3_Witness ==
    /\ lastCall.op = "set" /\ lastCall.error = "none"
    /\ K = Num(2)
    /\ Len(lastCall.ran) = 1
    /\ lastCall.skipped = <<>>
    /\ queue = <<>>
    /\ isSignaled

\* No callback of a token that is canceled is run by the step (a token the
\* step itself creates is not canceled when its callback runs).
CanceledNeverRun ==
    \A i \in 1..Len(invoked') :
        (i > Len(invoked) /\ invoked'[i] < tokenId) => IsLive(invoked'[i])

\* C4 as stated: a set() with autoResetCount K over a queue that holds
\* canceled tokens runs min(K, number of non-canceled queued tokens) callbacks,
\* those of the oldest non-canceled tokens, and no step runs the callback of a
\* canceled token.
C4_CanceledSkippedAndRefunded ==
    [][/\ CanceledNeverRun
       /\ (SetReturns /\ Live(queue) # queue) =>
            lastCall'.ran = Take(Live(queue),
                                 IF Finite(K) THEN Min(K.v, Len(Live(queue)))
                                 ELSE Len(Live(queue)))]_vars

\* C4 amended: the same for autoResetCount unbounded or >= 1 (and then for
\* every queue, with canceled tokens or without).
C4_CanceledSkippedAndRefunded_Positive ==
    [][/\ CanceledNeverRun
       /\ (SetReturns /\ (Finite(K) => K.v >= 1)) =>
            lastCall'.ran = Take(Live(queue),
                                 IF Finite(K) THEN Min(K.v, Len(Live(queue)))
                                 ELSE Len(Live(queue)))]_vars

\* A set() passed over a token canceled by its timer and still ran
\* autoResetCount = 2 callbacks.
C4_Witness ==
    /\ lastCall.op = "set" /\ lastCall.error = "none"
    /\ K = Num(2)
    /\ Len(lastCall.skipped) >= 1
    /\ \A i \in 1..Len(lastCall.skipped) : timers[lastCall.skipped[i] + 1] = "fired"
    /\ Len(lastCall.ran) = 2

\* C5 as stated: a reset() that returns leaves the event non-signaled, a set()
\* that returns leaves it signaled, and reset() after reset() or set() after
\* set() throws.
C5_StrictAlternation ==
    [][/\ (ResetCalled /\ lastCall'.error = "none") => ~isSignaled'
       /\ SetReturns => isSignaled'
       /\ (lastCall.op = "reset" /\ ResetCalled) => lastCall'.error = "InvalidState"
       /\ (lastCall.op = "set" /\ SetCalled) => lastCall'.error = "InvalidState"]_vars

\* C5 amended: a reset() that returns leaves the event non-signaled; a set()
\* that returns leaves it signaled unless it ran autoResetCount >= 1 callbacks
\* (then it stays non-signaled); reset() throws exactly when the event is
\* non-signaled, so reset() after reset() throws; set() throws exactly when
\* the event is signaled, so set() after a set() that signaled throws and
\* set() after a set() that did not signal returns.
C5_AlternationUnlessExhausted ==
    [][/\ (ResetCalled /\ lastCall'.error = "none") => ~isSignaled'
       /\ SetReturns =>
            (isSignaled' <=> ~(Finite(K) /\ K.v >= 1 /\ Len(lastCall'.ran) = K.v))
       /\ ResetCalled => (lastCall'.error = "InvalidState" <=> ~isSignaled)
       /\ SetCalled => (lastCall'.error = "InvalidState" <=> isSignaled)
       /\ (lastCall.op = "reset" /\ ResetCalled) => lastCall'.error = "InvalidState"
       /\ (lastCall.op = "set" /\ lastCall.error = "none" /\ SetCalled) =>
            (lastCall'.error = "InvalidState" <=>
                ~(Finite(K) /\ K.v >= 1 /\ Len(lastCall.ran) = K.v))]_vars

\* A set() returned and left the event non-signaled with tokens still queued.
C5_Witness ==
    /\ lastCall.op = "set" /\ lastCall.error = "none"
    /\ ~isSignaled
    /\ Len(lastCall.ran) >= 1
    /\ Len(queue) >= 1

\* C6: with finite autoResetCount K >= 1, a signaled event runs at most K
\* callbacks before it stops being signaled, also when it was constructed
\* signaled: while it is signaled fewer than K callbacks have run since it
\* was constructed or last set.
C6_OpenGateServesAtMostK ==
    (Finite(K) /\ K.v >= 1) => (burst <= K.v /\ (isSignaled => burst < K.v))

\* The step is a wait() that appends its token and so takes the queue past a
\* finite maxQueueSize under the given overflow strategy.
WaitOverflows(strategy) ==
    /\ WaitReturns
    /\ ~isSignaled
    /\ options.overflowStrategy = strategy
    /\ Finite(options.maxQueueSize)
    /\ Len(queue) + 1 > options.maxQueueSize.v

\* The step cancels exactly the tokens in `reduced` and reports them.
Evicts(reduced) ==
    /\ lastCall'.reduced = reduced
    /\ \A i \in 1..Len(tokens') :
          tokens'[i].isCanceled <=>
              ((i - 1) \in Range(reduced) \/ (i <= Len(tokens) /\ tokens[i].isCanceled))

\* C7: under 'this', a wait() that takes the queue past maxQueueSize removes
\* exactly its own token: the queue is as before and the returned token is
\* canceled, no other.
C7_RejectNewest ==
    [][WaitOverflows("this") => (queue' = queue /\ Evicts(<<tokenId>>))]_vars

\* Under 'this' with maxQueueSize 2 the third wait() was turned away.
C7_Witness ==
    /\ options.overflowStrategy = "this"
    /\ options.maxQueueSize = Num(2)
    /\ lastCall.op = "wait"
    /\ lastCall.reduced = <<2>>
    /\ queue = <<0, 1>>
    /\ tokens[3].isCanceled

\* C8: under 'first', a wait() that takes the queue past maxQueueSize leaves
\* exactly the maxQueueSize newest tokens in arrival order (the new token last,
\* when maxQueueSize >= 1) and cancels the older ones it removed.
C8_DropOldest ==
    [][WaitOverflows("first") =>
        LET all == Append(queue, tokenId)
            over == Len(all) - options.maxQueueSize.v
        IN  /\ Len(queue') = options.maxQueueSize.v
            /\ queue' = Drop(all, over)
            /\ options.maxQueueSize.v >= 1 => Last(queue') = tokenId
            /\ Evicts(Take(all, over))]_vars

\* Under 'first' with maxQueueSize 2 the third wait() pushed out the first token.
C8_Witness ==
    /\ options.overflowStrategy = "first"
    /\ options.maxQueueSize = Num(2)
    /\ lastCall.op = "wait"
    /\ lastCall.reduced = <<0>>
    /\ queue = <<1, 2>>
    /\ tokens[1].isCanceled

\* C9: under 'last', a wait() that takes the queue past maxQueueSize leaves
\* exactly maxQueueSize tokens: the maxQueueSize - 1 oldest queued tokens in
\* order, then the new token; the tokens between are removed and canceled.
\* For every maxQueueSize, 0 and 1 included.
C9_PreserveNewestAndOldest ==
    [][WaitOverflows("last") =>
        LET keep == options.maxQueueSize.v - 1
        IN  /\ Len(queue') = options.maxQueueSize.v
            /\ queue' = Take(queue, keep) \o <<tokenId>>
            /\ Evicts(Drop(queue, keep))]_vars

\* C10: a token reduceQueue removed is out of the queue, canceled, has no
\* armed timer, never has its timer fire afterwards, and its callback never ran.
C10_EvictedNeverRuns ==
    [][\A id \in evicted' :
          /\ id \notin Range(queue')
          /\ tokens'[id + 1].isCanceled
          /\ timers'[id + 1] # "armed"
          /\ id \in evicted => timers'[id + 1] = timers[id + 1]
          /\ id \notin Range(invoked')]_vars

\* A token with an armed timer was evicted, its timer is cleared, and a later
\* set() ran another callback.
C10_Witness ==
    /\ \E id \in evicted : timers[id + 1] = "cleared"
    /\ lastCall.op = "set"
    /\ Len(lastCall.ran) >= 1

\* C11: reset() on a non-signaled event and set() on a signaled one throw, as
\* does wait() with a callback that is no function; a call that throws leaves
\* isSignaled, the queue, callbacksCount, the token counter, every token and
\* every timer as they were and runs no callback.
C11_FailingCallChangesNothing ==
    [][/\ (ResetCalled /\ ~isSignaled) => lastCall'.error = "InvalidState"
       /\ (SetCalled /\ isSignaled) => lastCall'.error = "InvalidState"
       /\ lastCall'.error # "none" =>
            /\ UNCHANGED gate
            /\ invoked' = invoked
            /\ lastCall'.ran = <<>>]_vars

\* A wait() threw while a token with an armed timer was queued.
C11_Witness ==
    /\ lastCall.op = "wait"
    /\ lastCall.error = "InvalidArgument"
    /\ \E i \in 1..Len(queue) : timers[queue[i] + 1] = "armed"

\* C12: callbacks run in the order in which their wait() calls were made
\* (token ids count the wait() calls): of any two callbacks that ran, the one
\* of the earlier wait() ran first, through any number of set() calls.  This
\* covers the tokens that were queued and those that passed straight through.
C12_InvokedInArrivalOrder ==
    \A i, j \in 1..Len(invoked) : i < j => invoked[i] < invoked[j]

\* Two set() calls with autoResetCount 1 each ran one queued callback and a
\* third token is still queued.
C12_Witness ==
    /\ K = Num(1)
    /\ lastCall.op = "set"
    /\ lastCall.ran = <<1>>
    /\ invoked = <<0, 1>>
    /\ queue = <<2>>

\* C14: a reset() that returns was called on a signaled event and changes
\* isSignaled to false and nothing else: the queue, every token's isCanceled
\* and timer, callbacksCount and the callbacks run so far are as before.
C14_ResetChangesOnlyFlag ==
    [][(ResetCalled /\ lastCall'.error = "none") =>
        /\ isSignaled
        /\ ~isSignaled'
        /\ UNCHANGED <<queue, callbacksCount, options, tokenId, tokens, timers, invoked>>]_vars

\* A reset() returned while budget was left and a timer was armed.
C14_Witness ==
    /\ lastCall.op = "reset"
    /\ lastCall.error = "none"
    /\ Finite(callbacksCount) /\ callbacksCount.v >= 1
    /\ \E i \in 1..Len(timers) : timers[i] = "armed"
    /\ Len(invoked) >= 1

\* What is left of the budget once a set() has put it to a finite
\* autoResetCount >= 1: autoResetCount less the callbacks run since that set()
\* began, never below zero, and above zero while the event is signaled.
BudgetIsRemainder ==
    (Finite(K) /\ K.v >= 1 /\ Finite(callbacksCount)) =>
        /\ callbacksCount.v = K.v - burst
        /\ burst <= K.v
        /\ isSignaled => burst < K.v

\* C15: every set() starts from autoResetCount K: once a set() has run j < K
\* callbacks and signaled, each wait() runs its callback at once while the
\* event is signaled, and the event stops being signaled exactly when K
\* callbacks have run since that set() began; what was left from an earlier
\* set() does not count.
C15_BudgetReinitialisedAndConsumed ==
    [][/\ BudgetIsRemainder'
       /\ WaitReturns => lastCall'.ran = IF isSignaled THEN <<tokenId>> ELSE <<>>
       /\ (SetReturns /\ Finite(K)) => callbacksCount'.v = K.v - Len(lastCall'.ran)]_vars

\* With autoResetCount 2 a set() ran one queued callback (clearing its timer)
\* and signaled, and the next wait() ran its callback at once and closed the
\* event.
C15_Witness ==
    /\ K = Num(2)
    /\ lastCall.op = "wait"
    /\ lastCall.ran = <<1>>
    /\ invoked = <<0, 1>>
    /\ burst = 2
    /\ callbacksCount = Num(0)
    /\ ~isSignaled
    /\ options.maxQueueSize = Infinity
    /\ timers[1] = "cleared"

\* C16: a timer fires only for a token that is still queued: once a token has
\* left the queue or its callback has run (from set() or straight from
\* wait()), its timer does not fire and its isCanceled does not change.
C16_NoTimerAfterDequeue ==
    [][\A id \in 0..(tokenId - 1) :
          (id \notin Range(queue) \/ id \in Range(invoked)) =>
              /\ timers'[id + 1] = timers[id + 1]
              /\ tokens'[id + 1].isCanceled = tokens[id + 1].isCanceled]_vars

\* C18: between calls, a signaled event has an empty queue.
C18_SignaledImpliesEmptyQueue == isSignaled => queue = <<>>

\* A set() ran the callbacks of two queued tokens and signaled.
C18_Witness ==
    /\ isSignaled
    /\ lastCall.op = "set"
    /\ Len(lastCall.ran) = 2
    /\ queue = <<>>

\* C19: no callback runs twice, and a token that is not canceled leaves the
\* queue only in a step that runs its callback or in a wait() whose
\* reduceQueue removes (and so cancels) it; the token a wait() creates is
\* queued, run or removed by that wait().
C19_AtMostOnceAndNeverDropped ==
    [][/\ \A i, j \in 1..Len(invoked') : i < j => invoked'[i] # invoked'[j]
       /\ \A id \in Range(queue) :
            (id \notin Range(queue') /\ IsLive(id)) =>
                \/ id \in Range(lastCall'.ran)
                \/ id \in Range(lastCall'.reduced) /\ tokens'[id + 1].isCanceled
       /\ WaitReturns =>
            \/ tokenId \in Range(queue')
            \/ lastCall'.ran = <<tokenId>>
            \/ tokenId \in Range(lastCall'.reduced)]_vars

\* Under 'last' a wait() removed a queued token that was not canceled, and a
\* later set() ran the two callbacks left.
C19_Witness ==
    /\ options.overflowStrategy = "last"
    /\ evicted = {1}
    /\ timers[2] = "none"
    /\ lastCall.op = "set"
    /\ invoked = <<0, 2>>

(***************************************************************************)
(* The event of C20: finite autoResetCount >= 1, no maxQueueSize, wait()   *)
(* without timeout, and a caller that does not leave the event             *)
(* non-signaled for ever without calling set().                            *)
(***************************************************************************)
InitFair ==
    /\ Init
    /\ Finite(options.autoResetCount) /\ options.autoResetCount.v >= 1
    /\ options.maxQueueSize = Infinity

NextFair ==
    \/ Set /\ UNCHANGED stack
    \/ Reset /\ UNCHANGED stack
    \/ (\E isFunction \in BOOLEAN : Wait(isFunction, 0)) /\ UNCHANGED stack

SetOnNonSignaled == ~isSignaled /\ Set /\ UNCHANGED stack

SpecFair == InitFair /\ [][NextFair]_vars /\ WF_vars(SetOnNonSignaled)

\* C20: with finite autoResetCount >= 1, no maxQueueSize and no timeouts, if
\* set() is called again and again while the event is non-signaled, every
\* queued token's callback is eventually run, whatever wait() calls arrive.
C20_QueuedEventuallyInvoked ==
    \A id \in 0..(MaxTokens - 1) :
        [](id \in Range(queue) => <>(id \in Range(invoked)))

\* With autoResetCount 1 a set() ran the oldest callback while two later
\* tokens stay queued for the next set() calls.
C20_Witness ==
    /\ K = Num(1)
    /\ lastCall.op = "set"
    /\ lastCall.ran = <<0>>
    /\ invoked = <<0>>
    /\ queue = <<1, 2>>

(***************************************************************************)
(* The observers isSignaled() and queueSize(), called between the other    *)
(* calls.  A call e.name() looks the name up on the instance first: the    *)
(* constructor's own fields come before the prototype's methods.           *)
(***************************************************************************)
\* this.queue, this.isSignaled, this.options of the constructor
OwnFields == {"queue", "isSignaled", "options"}

\* ResetEvent.prototype.*
PrototypeMethods ==
    {"createToken", "reduceQueue", "executeCallback", "reset", "set", "wait",
     "isSignaled", "queueSize"}

\* e.name is a function: no own field of that name hides the prototype's method.
IsCallable(name) == name \notin OwnFields /\ name \in PrototypeMethods

Observed(op, error, returned) ==
    [op |-> op, error |-> error, ran |-> <<>>, reduced |-> <<>>, skipped |-> <<>>,
     returned |-> returned]

\* e.isSignaled()
IsSignaledCall ==
    /\ lastCall' = IF IsCallable("isSignaled")
                   THEN Observed("isSignaled", "none", isSignaled)
                   ELSE Observed("isSignaled", "TypeError", "undefined")
    /\ UNCHANGED <<gate, invoked, evicted, burst, stack>>

\* e.queueSize()
QueueSizeCall ==
    /\ lastCall' = IF IsCallable("queueSize")
                   THEN Observed("queueSize", "none", Len(queue))
                   ELSE Observed("queueSize", "TypeError", "undefined")
    /\ UNCHANGED <<gate, invoked, evicted, burst, stack>>

NextObserved == Next \/ IsSignaledCall \/ QueueSizeCall

SpecObserved == Init /\ [][NextObserved]_vars

\* C13: isSignaled() returns the value of the flag and queueSize() the length
\* of the queue; neither throws nor changes the event or a token.
C13_ObserversReturnState ==
    [][/\ lastCall'.op = "isSignaled" =>
            /\ lastCall'.error = "none"
            /\ lastCall'.returned = isSignaled
            /\ UNCHANGED gate
       /\ lastCall'.op = "queueSize" =>
            /\ lastCall'.error = "none"
            /\ lastCall'.returned = Len(queue)
            /\ UNCHANGED gate]_vars

(***************************************************************************)
(* Callbacks that call the event.  executeCallback runs token.callback     *)
(* inside set() or wait(); the call stays on the stack until the callback  *)
(* returns, and the callback may itself call reset(), set() or wait() (the *)
(* token it is given carries resetEvent and set).  Calls made from a       *)
(* callback are those that do not throw.  Timers fire on an empty stack.   *)
(***************************************************************************)
Frame(op, token) == [op |-> op, token |-> token]

\* set(): the loop up to the next executeCallback(queueToken) (calling = that
\* token), or to its end (calling = -1, isSignaled = true).
RECURSIVE drainToCallback(_)
drainToCallback(s) ==
    IF Len(s.queue) > 0
    THEN LET queueToken == Head(s.queue)
             count == Decrement(s.callbacksCount)
             tm == clearOnDequeue(s.timers, queueToken, count)
         IN  IF Token(queueToken).isCanceled
             THEN drainToCallback([s EXCEPT !.queue = Tail(s.queue),
                                            !.callbacksCount = refund(count),
                                            !.timers = tm,
                                            !.skipped = Append(s.skipped, queueToken)])
             ELSE [s EXCEPT !.queue = Tail(s.queue),
                            !.callbacksCount = count,
                            !.timers = tm,
                            !.calling = queueToken]
    ELSE [s EXCEPT !.isSignaled = TRUE, !.calling = -1]

\* The loop of set() goes on from the event's fields as they are now.
LoopFrom(count) ==
    drainToCallback([queue |-> queue,
                     callbacksCount |-> count,
                     timers |-> timers,
                     skipped |-> <<>>,
                     isSignaled |-> isSignaled,
                     calling |-> -1])

\* set() on a non-signaled event, up to its first callback or its end.
SetEnters ==
    /\ ~isSignaled
    /\ Len(stack) < MaxDepth
    /\ LET s == LoopFrom(initialBudget(options))
       IN  /\ queue' = s.queue
           /\ callbacksCount' = s.callbacksCount
           /\ timers' = s.timers
           /\ isSignaled' = s.isSignaled
           /\ IF s.calling # -1
              THEN /\ stack' = Append(stack, Frame("set", s.calling))
                   /\ invoked' = Append(invoked, s.calling)
                   /\ burst' = 1
                   /\ lastCall' = Call("set", "none", <<s.calling>>, <<>>, s.skipped)
              ELSE /\ stack' = stack
                   /\ invoked' = invoked
                   /\ burst' = 0
                   /\ lastCall' = Call("set", "none", <<>>, <<>>, s.skipped)
           /\ UNCHANGED <<options, tokenId, tokens, evicted>>

\* The callback that set() is running returns: line 134 and the loop.
CallbackReturnsToSet ==
    /\ stack # <<>>
    /\ Last(stack).op = "set"
    /\ IF budgetExhausted(callbacksCount)
       THEN /\ stack' = Front(stack)
            /\ lastCall' = Call("set", "none", <<>>, <<>>, <<>>)
            /\ UNCHANGED <<gate, invoked, evicted, burst>>
       ELSE LET s == LoopFrom(callbacksCount)
            IN  /\ queue' = s.queue
                /\ callbacksCount' = s.callbacksCount
                /\ timers' = s.timers
                /\ isSignaled' = s.isSignaled
                /\ IF s.calling # -1
                   THEN /\ stack' = Append(Front(stack), Frame("set", s.calling))
                        /\ invoked' = Append(invoked, s.calling)
                        /\ burst' = burst + 1
                        /\ lastCall' = Call("set", "none", <<s.calling>>, <<>>, s.skipped)
                   ELSE /\ stack' = Front(stack)
                        /\ invoked' = invoked
                        /\ burst' = burst
                        /\ lastCall' = Call("set", "none", <<>>, <<>>, s.skipped)
                /\ UNCHANGED <<options, tokenId, tokens, evicted>>

\* wait() on a signaled event, up to executeCallback(token).
WaitEnters(timeout) ==
    /\ isSignaled
    /\ tokenId < MaxTokens
    /\ Len(stack) < MaxDepth
    /\ tokenId' = tokenId + 1
    /\ tokens' = Append(tokens, createToken(IF timeout # 0 THEN "handle" ELSE "undefined"))
    /\ timers' = Append(timers, IF timeout # 0 THEN "armed" ELSE "none")
    /\ stack' = Append(stack, Frame("wait", tokenId))
    /\ invoked' = Append(invoked, tokenId)
    /\ burst' = burst + 1
    /\ lastCall' = Call("wait", "none", <<tokenId>>, <<>>, <<>>)
    /\ UNCHANGED <<isSignaled, queue, callbacksCount, options, evicted>>

\* The callback that wait() is running returns: lines 170-186.
CallbackReturnsToWait ==
    /\ stack # <<>>
    /\ Last(stack).op = "wait"
    /\ LET count == Decrement(callbacksCount)
           r == reduceQueue(queue, options)
       IN  /\ callbacksCount' = count
           /\ isSignaled' = IF budgetExhausted(count) THEN FALSE ELSE isSignaled
           /\ queue' = r.queue
           /\ tokens' = cancelReduced(tokens, r.result)
           /\ timers' = clearReduced(tokens, timers, r.result)
           /\ evicted' = evicted \cup Range(r.result)
           /\ lastCall' = Call("wait", "none", <<>>, r.result, <<>>)
    /\ stack' = Front(stack)
    /\ UNCHANGED <<options, tokenId, invoked, burst>>

\* The calls that run no callback: reset(), wait() on a non-signaled event,
\* and the calls that throw (these from outside callbacks only).
ResetRuns == (stack = <<>> \/ isSignaled) /\ Reset /\ UNCHANGED stack

WaitQueues(timeout) == ~isSignaled /\ Wait(TRUE, timeout) /\ UNCHANGED stack

WaitThrows == stack = <<>> /\ Wait(FALSE, 0) /\ UNCHANGED stack

SetThrows == stack = <<>> /\ isSignaled /\ Set /\ UNCHANGED stack

TimerFiresIdle(id) == stack = <<>> /\ TimerFires(id) /\ UNCHANGED stack

NextReentrant ==
    \/ SetEnters
    \/ CallbackReturnsToSet
    \/ \E timeout \in Timeouts : WaitEnters(timeout)
    \/ CallbackReturnsToWait
    \/ ResetRuns
    \/ \E timeout \in Timeouts : WaitQueues(timeout)
    \/ WaitThrows
    \/ SetThrows
    \/ \E id \in 0..(MaxTokens - 1) : TimerFiresIdle(id)

SpecReentrant == Init /\ [][NextReentrant]_vars

\* C17: reset(), set() and wait() are indivisible with respect to each other:
\* no call on the event begins while another has begun and not returned, so
\* at most one call is in progress, also when callbacks call the event.
C17_OneCallAtATime == Len(stack) <= 1

====
